---------------------------- MODULE Spec2Model ----------------------------
(***************************************************************************)
(* dstkit: the geohash codec (src/dstkit/geohash.py) and the h3 wrapper    *)
(* (src/dstkit/hexagon.py), as a state machine of one Python interpreter   *)
(* running one call at a time.                                             *)
(*                                                                         *)
(* Numbers.  Every float the codec computes for a geohash of at most 12    *)
(* characters is a dyadic fraction of the axis range that float64 holds    *)
(* exactly (at most 30 halvings of 180 or 360), so the arithmetic is exact *)
(* and is modelled on an integer grid:                                     *)
(*     latitude  x degrees  is  x * 2^30 / 90   units  (-90 .. 90)         *)
(*     longitude y degrees  is  y * 2^30 / 180  units  (-180 .. 180)       *)
(* The grid is one bit finer than the finest cell edge (30 halvings leave  *)
(* a cell 2 units wide), so it holds cell edges, cell interiors and the    *)
(* centroids decode returns.                                               *)
(*                                                                         *)
(* Strings are sequences of one-character strings.                         *)
(***************************************************************************)
EXTENDS Integers, Sequences, FiniteSets, TLC

VARIABLES
    stack,       \* the call stack: function names, innermost last
    args,        \* the arguments of the outermost call
    enc,         \* the locals of geohash.encode
    gb,          \* the locals of geohash.get_bounds
    gj,          \* the locals of geohash.get_geojson
    ret,         \* what the last finished function returned or raised
    prev,        \* the outermost call finished before this one (round trips)
    bisections   \* history: iterations of encode's while loop in this call

vars == <<stack, args, enc, gb, gj, ret, prev, bisections>>

---------------------------------------------------------------------------
(* Bounds of the model and constants of the program                        *)

\* Fresh geohash arguments are all strings over InputChars up to this length
\* (and the LongSamples).
MaxLen == 3

\* geohash.py:146  precision < 1
MinPrecision == 1
\* geohash.py:146  precision > 12
MaxPrecision == 12
\* hexagon.py:17   resolution=3
DefaultResolution == 3

\* geohash.py:67-70, 154-157: -90.0, 90.0, -180.0, 180.0 in grid units
South == -(2^30)
North == 2^30
West == -(2^30)
East == 2^30

---------------------------------------------------------------------------
(* Python built-ins the code uses                                          *)

\* geohash.py:3
geohash_base32 ==
    << "0","1","2","3","4","5","6","7","8","9","b","c","d","e","f","g",
       "h","j","k","m","n","p","q","r","s","t","u","v","w","x","y","z" >>

AsciiUpper ==
    << "A","B","C","D","E","F","G","H","I","J","K","L","M",
       "N","O","P","Q","R","S","T","U","V","W","X","Y","Z" >>
AsciiLower ==
    << "a","b","c","d","e","f","g","h","i","j","k","l","m",
       "n","o","p","q","r","s","t","u","v","w","x","y","z" >>

\* str.find(character): the lowest 0-based index, or -1
find(s, character) ==
    IF \E i \in 1..Len(s) : s[i] = character
    THEN (CHOOSE i \in 1..Len(s) :
             s[i] = character /\ \A j \in 1..(i-1) : s[j] # character) - 1
    ELSE -1

\* str.lower() of one character
lower_char(c) ==
    IF find(AsciiUpper, c) = -1 THEN c ELSE AsciiLower[find(AsciiUpper, c) + 1]

\* str.lower()
lower(s) == [i \in 1..Len(s) |-> lower_char(s[i])]

Returned(v) == [status |-> "returned", value |-> v]
Raised(kind, message) == [status |-> "raised", value |-> <<kind, message>>]
NoRet == [status |-> "none", value |-> <<>>]

---------------------------------------------------------------------------
(* geohash.get_bounds                                                      *)

GbIdle ==
    [geohash |-> <<>>, pos |-> 0, index |-> 0, nvals |-> <<>>, even_bit |-> TRUE,
     latitude_min |-> 0, latitude_max |-> 0,
     longitude_min |-> 0, longitude_max |-> 0]

\* get_bounds without line 64: the geohash is not lowercased
get_bounds_init_case_sensitive(geohash) ==
    [geohash |-> geohash, pos |-> 0, index |-> 0, nvals |-> <<>>,
     even_bit |-> TRUE,
     latitude_min |-> South, latitude_max |-> North,
     longitude_min |-> West, longitude_max |-> East]

\* lines 64-70: the locals when the for loop is reached; pos counts the
\* characters the loop has taken
get_bounds_init(geohash) ==
    [geohash |-> lower(geohash), pos |-> 0, index |-> 0, nvals |-> <<>>,
     even_bit |-> TRUE,
     latitude_min |-> South, latitude_max |-> North,
     longitude_min |-> West, longitude_max |-> East]

\* line 73 without lines 74-75: the -1 of find is used as an index, and every
\* bit of -1 is 1
character_index_unchecked(g) ==
    IF find(geohash_base32, g.geohash[g.pos + 1]) = -1
    THEN 31
    ELSE find(geohash_base32, g.geohash[g.pos + 1])

\* line 73
character_index(g) == find(geohash_base32, g.geohash[g.pos + 1])

\* lines 72-77 with line 66 moved into the loop: every character starts on
\* the longitude
next_character_restart(g) ==
    [g EXCEPT !.pos = @ + 1,
              !.index = find(geohash_base32, g.geohash[g.pos + 1]),
              !.nvals = <<4, 3, 2, 1, 0>>,
              !.even_bit = TRUE]

\* lines 72, 73, 77: the loop takes a character of the alphabet
next_character(g) ==
    [g EXCEPT !.pos = @ + 1,
              !.index = character_index(g),
              !.nvals = <<4, 3, 2, 1, 0>>]

\* lines 78-92 with line 87 copied from line 81 and left unchanged: the
\* latitude is cut at the longitude's midpoint
narrow_shared_midpoint(g) ==
    LET n == Head(g.nvals)
        bitN == (g.index \div (2^n)) % 2
        longitude_midpoint == (g.longitude_min + g.longitude_max) \div 2
        latitude_midpoint == (g.longitude_min + g.longitude_max) \div 2
        h == [g EXCEPT !.nvals = Tail(@), !.even_bit = ~@]
    IN  IF g.even_bit
        THEN IF bitN = 1
             THEN [h EXCEPT !.longitude_min = longitude_midpoint]
             ELSE [h EXCEPT !.longitude_max = longitude_midpoint]
        ELSE IF bitN = 1
             THEN [h EXCEPT !.latitude_min = latitude_midpoint]
             ELSE [h EXCEPT !.latitude_max = latitude_midpoint]

\* lines 78-92: one pass of the inner loop
narrow(g) ==
    LET n == Head(g.nvals)
        bitN == (g.index \div (2^n)) % 2
        longitude_midpoint == (g.longitude_min + g.longitude_max) \div 2
        latitude_midpoint == (g.latitude_min + g.latitude_max) \div 2
        h == [g EXCEPT !.nvals = Tail(@), !.even_bit = ~@]
    IN  IF g.even_bit
        THEN IF bitN = 1
             THEN [h EXCEPT !.longitude_min = longitude_midpoint]
             ELSE [h EXCEPT !.longitude_max = longitude_midpoint]
        ELSE IF bitN = 1
             THEN [h EXCEPT !.latitude_min = latitude_midpoint]
             ELSE [h EXCEPT !.latitude_max = latitude_midpoint]

\* line 94
bounds_of(g) ==
    [sw |-> [lat |-> g.latitude_min, lon |-> g.longitude_min],
     ne |-> [lat |-> g.latitude_max, lon |-> g.longitude_max]]

\* line 75
InvalidGeohash == Raised("ValueError", "Invalid geohash.")

\* lines 64-94 run to the end: what get_bounds(geohash) returns or raises
RECURSIVE get_bounds_run(_)
get_bounds_run(g) ==
    IF g.nvals # <<>> THEN get_bounds_run(narrow(g))
    ELSE IF g.pos < Len(g.geohash)
         THEN IF character_index(g) = -1
              THEN InvalidGeohash
              ELSE get_bounds_run(next_character(g))
         ELSE Returned(bounds_of(g))

get_bounds(geohash) == get_bounds_run(get_bounds_init(geohash))


---------------------------------------------------------------------------
(* geohash.decode, geohash.get_polygon, geohash.get_geojson                *)

\* np.mean of two floats
mean(a, b) == (a + b) \div 2

\* lines 111-114
centroid(bounds) ==
    << mean(bounds.sw.lat, bounds.ne.lat), mean(bounds.sw.lon, bounds.ne.lon) >>

\* lines 41-45 with the third and fourth vertices exchanged
polygon_vertices_crossed(bounds) ==
    << <<bounds.sw.lon, bounds.sw.lat>>,
       <<bounds.sw.lon, bounds.ne.lat>>,
       <<bounds.ne.lon, bounds.sw.lat>>,
       <<bounds.ne.lon, bounds.ne.lat>>,
       <<bounds.sw.lon, bounds.sw.lat>> >>

\* lines 41-45
polygon_vertices(bounds) ==
    << <<bounds.sw.lon, bounds.sw.lat>>,
       <<bounds.sw.lon, bounds.ne.lat>>,
       <<bounds.ne.lon, bounds.ne.lat>>,
       <<bounds.ne.lon, bounds.sw.lat>>,
       <<bounds.sw.lon, bounds.sw.lat>> >>

GjIdle == [geohash |-> <<>>, feature |-> <<>>]

\* lines 15-20: the locals when get_polygon is called
get_geojson_init(geohash, properties) ==
    [geohash |-> lower(geohash),
     feature |-> [type |-> "Feature",
                  properties |-> [key \in DOMAIN properties |-> properties[key]],
                  geometry |-> [type |-> "Polygon", coordinates |-> <<>>]]]

\* line 22
append_polygon(feature, polygon) ==
    [feature EXCEPT !.geometry.coordinates = Append(@, polygon)]

---------------------------------------------------------------------------
(* geohash.encode                                                          *)

EncIdle ==
    [latitude |-> 0, longitude |-> 0, precision |-> 0,
     index |-> 0, bit |-> 0, even_bit |-> TRUE, geohash |-> <<>>,
     lat_min |-> 0, lat_max |-> 0, lon_min |-> 0, lon_max |-> 0]

\* line 146 with the upper limit off by one
precision_rejected_late(precision) ==
    precision < MinPrecision \/ precision > MaxPrecision + 1

\* line 146
precision_rejected(precision) ==
    precision < MinPrecision \/ precision > MaxPrecision

\* line 147
InvalidPrecision ==
    Raised("ValueError", "precision must be an integer between 1 and 12")

\* lines 149-157 with even_bit = False: the first bit halves the latitude
encode_init_latitude_first(latitude, longitude, precision) ==
    [latitude |-> latitude, longitude |-> longitude, precision |-> precision,
     index |-> 0, bit |-> 0, even_bit |-> FALSE, geohash |-> <<>>,
     lat_min |-> South, lat_max |-> North, lon_min |-> West, lon_max |-> East]

\* lines 149-157: the locals when the while loop is reached
encode_init(latitude, longitude, precision) ==
    [latitude |-> latitude, longitude |-> longitude, precision |-> precision,
     index |-> 0, bit |-> 0, even_bit |-> TRUE, geohash |-> <<>>,
     lat_min |-> South, lat_max |-> North, lon_min |-> West, lon_max |-> East]

\* lines 160-177 with > for >= in lines 162 and 170
bisect_strict(e) ==
    LET lon_mid == (e.lon_min + e.lon_max) \div 2
        lat_mid == (e.lat_min + e.lat_max) \div 2
        f == [e EXCEPT !.even_bit = ~@]
    IN  IF e.even_bit
        THEN IF e.longitude > lon_mid
             THEN [f EXCEPT !.index = @ * 2 + 1, !.lon_min = lon_mid]
             ELSE [f EXCEPT !.index = @ * 2, !.lon_max = lon_mid]
        ELSE IF e.latitude > lat_mid
             THEN [f EXCEPT !.index = @ * 2 + 1, !.lat_min = lat_mid]
             ELSE [f EXCEPT !.index = @ * 2, !.lat_max = lat_mid]

\* lines 160-177: halve the active axis and shift the bit into index
bisect(e) ==
    LET lon_mid == (e.lon_min + e.lon_max) \div 2
        lat_mid == (e.lat_min + e.lat_max) \div 2
        f == [e EXCEPT !.even_bit = ~@]
    IN  IF e.even_bit
        THEN IF e.longitude >= lon_mid
             THEN [f EXCEPT !.index = @ * 2 + 1, !.lon_min = lon_mid]
             ELSE [f EXCEPT !.index = @ * 2, !.lon_max = lon_mid]
        ELSE IF e.latitude >= lat_mid
             THEN [f EXCEPT !.index = @ * 2 + 1, !.lat_min = lat_mid]
             ELSE [f EXCEPT !.index = @ * 2, !.lat_max = lat_mid]

\* lines 178-183 with bit < 3 in line 178: a character every four bits
accumulate_four_bits(e) ==
    IF e.bit < 3
    THEN [e EXCEPT !.bit = @ + 1]
    ELSE [e EXCEPT !.geohash = Append(@, geohash_base32[e.index + 1]),
                   !.bit = 0, !.index = 0]

\* lines 178-183: count the bit, or emit a character and start over
accumulate(e) ==
    IF e.bit < 4
    THEN [e EXCEPT !.bit = @ + 1]
    ELSE [e EXCEPT !.geohash = Append(@, geohash_base32[e.index + 1]),
                   !.bit = 0, !.index = 0]

\* lines 160-183: one iteration of the while loop
encode_iteration(e) == accumulate(bisect(e))

\* line 159
encode_continues(e) == Len(e.geohash) < e.precision

---------------------------------------------------------------------------
(* hexagon.py.  The h3 library is outside the repository: a cell address   *)
(* and a cell boundary are uninterpreted terms over the arguments.         *)

\* hexagon.py:5
geo_to_h3(lat, lon, res) == <<"cell", lat, lon, res>>

\* hexagon.py:14, 20
h3_to_geo_boundary(h3_address, geo_json) == <<"boundary", h3_address, geo_json>>

\* hexagon.py:3: the parameters encode declares
encode_parameters == <<"lat", "lon", "resolution">>

\* hexagon.py:3-5: a call of encode with two positional arguments and the
\* keyword arguments `keywords`; Python raises TypeError for a keyword that
\* names no parameter
hexagon_encode(lat, lon, keywords) ==
    IF \E k \in DOMAIN keywords : find(encode_parameters, k) = -1
    THEN Raised("TypeError", "encode() got an unexpected keyword argument")
    ELSE Returned(geo_to_h3(lat, lon,
                            IF "resolution" \in DOMAIN keywords
                            THEN keywords["resolution"]
                            ELSE DefaultResolution))

\* hexagon.py:11-15
hexagon_from_h3(h3_address) ==
    Returned([type |-> "Polygon",
              coordinates |-> <<h3_to_geo_boundary(h3_address, TRUE)>>])

\* hexagon.py:17-21: the argument encode(lat, lon, res=resolution) is
\* evaluated first, and what it raises leaves the function
hexagon_from_location(lat, lon, resolution) ==
    LET h3_address == hexagon_encode(lat, lon, [res |-> resolution])
    IN  IF h3_address.status = "raised"
        THEN h3_address
        ELSE Returned([type |-> "Polygon",
                       coordinates |-> <<h3_to_geo_boundary(h3_address.value, TRUE)>>])

---------------------------------------------------------------------------
(* The caller: what the calls are made with                                *)

\* Latitudes in grid units: both poles and their neighbours, the equator
\* (the first midpoint) and its neighbours, 45 degrees (a later midpoint),
\* 57.64911 degrees, and a value beyond each pole (encode validates neither)
Latitudes ==
    {South - 1, South, South + 1, -1, 0, 1, 2^29, 687780673,
     North - 1, North, North + 1}

\* Longitudes in grid units: both antimeridian edges and their neighbours,
\* the prime meridian, -90 degrees, 10.40744 degrees, and a value beyond 180
Longitudes ==
    {West, West + 1, -(2^29), 0, 1, 62082797, East - 1, East, East + 1}

Precisions == (MinPrecision - 2)..(MaxPrecision + 1)

\* alphabet characters ("0" = 00000, "e" = 01101, "z" = 11111), an upper-case
\* alphabet character, and characters outside the alphabet in either case
InputChars == {"0", "e", "z", "U", "a", "I", "-"}

RECURSIVE StringsUpTo(_)
StringsUpTo(n) ==
    IF n = 0 THEN {<<>>}
    ELSE LET shorter == StringsUpTo(n - 1)
         IN  shorter \cup {Append(s, c) : s \in {t \in shorter : Len(t) = n - 1},
                                          c \in InputChars}

LongSamples ==
    { <<"u","4","p","r","u","y","d","q","q","v","j","8">>,
      <<"U","4","P","R","U","Y","D","Q">>,
      <<"z","z","z","z","z","z","z","z","z","z","z","z">>,
      <<"u","4","p","r","u","y","d","q","q","v","j","o">> }

InputStrings == StringsUpTo(MaxLen) \cup LongSamples

PropertySets == { <<>>, [name |-> "centre"] }

HexLatitudes == {South, 0, 687780673}
HexLongitudes == {West, 0, 62082797}
Resolutions == {0, 3, 15}

NoArgs ==
    [fn |-> "none", latitude |-> 0, longitude |-> 0, precision |-> 0,
     geohash |-> <<>>, properties |-> <<>>, h3_address |-> <<>>]

NoCall == [args |-> NoArgs, ret |-> NoRet]

Callers == {"decode", "get_polygon", "get_geojson"}

Top == stack[Len(stack)]
Pop == SubSeq(stack, 1, Len(stack) - 1)
Idle == stack = <<>> /\ args.fn = "none"
Done == stack = <<>> /\ args.fn # "none"

---------------------------------------------------------------------------
(* The state machine                                                       *)

Init ==
    /\ stack = <<>>
    /\ args = NoArgs
    /\ enc = EncIdle
    /\ gb = GbIdle
    /\ gj = GjIdle
    /\ ret = NoRet
    /\ prev = NoCall
    /\ bisections = 0

\* geohash.py:117, 146-157: encode is entered
encode_enter(latitude, longitude, precision) ==
    /\ args' = [NoArgs EXCEPT !.fn = "encode", !.latitude = latitude,
                              !.longitude = longitude, !.precision = precision]
    /\ bisections' = 0
    /\ IF precision_rejected(precision)
       THEN stack' = <<>> /\ enc' = EncIdle /\ ret' = InvalidPrecision
       ELSE /\ stack' = <<"encode">>
            /\ enc' = encode_init(latitude, longitude, precision)
            /\ ret' = NoRet
    /\ UNCHANGED <<gb, gj>>

call_encode ==
    /\ Idle
    /\ \E latitude \in Latitudes, longitude \in Longitudes, precision \in Precisions :
          encode_enter(latitude, longitude, precision)
    /\ UNCHANGED prev

\* geohash.py:159-183
encode_loop ==
    /\ stack # <<>> /\ Top = "encode"
    /\ encode_continues(enc)
    /\ enc' = encode_iteration(enc)
    /\ bisections' = bisections + 1
    /\ UNCHANGED <<stack, args, gb, gj, ret, prev>>

\* geohash.py:159, 185
encode_return ==
    /\ stack # <<>> /\ Top = "encode"
    /\ ~encode_continues(enc)
    /\ ret' = Returned(enc.geohash)
    /\ stack' = Pop
    /\ enc' = EncIdle
    /\ UNCHANGED <<args, gb, gj, prev, bisections>>

\* a function of geohash.py that takes a geohash is entered; every one of
\* them reaches get_bounds (lines 110, 40, 22) before anything can fail
geohash_enter(fn, geohash, properties) ==
    /\ args' = [NoArgs EXCEPT !.fn = fn, !.geohash = geohash,
                              !.properties = properties]
    /\ bisections' = 0
    /\ ret' = NoRet
    /\ enc' = EncIdle
    /\ CASE fn = "get_bounds" ->
              /\ stack' = <<"get_bounds">>
              /\ gj' = GjIdle
              /\ gb' = get_bounds_init(geohash)
         [] fn = "decode" ->
              /\ stack' = <<"decode", "get_bounds">>
              /\ gj' = GjIdle
              /\ gb' = get_bounds_init(geohash)
         [] fn = "get_polygon" ->
              /\ stack' = <<"get_polygon", "get_bounds">>
              /\ gj' = GjIdle
              /\ gb' = get_bounds_init(geohash)
         [] fn = "get_geojson" ->
              /\ stack' = <<"get_geojson", "get_polygon", "get_bounds">>
              /\ gj' = get_geojson_init(geohash, properties)
              /\ gb' = get_bounds_init(gj'.geohash)

call_get_bounds ==
    /\ Idle
    /\ \E geohash \in InputStrings : geohash_enter("get_bounds", geohash, <<>>)
    /\ UNCHANGED prev

call_decode ==
    /\ Idle
    /\ \E geohash \in InputStrings : geohash_enter("decode", geohash, <<>>)
    /\ UNCHANGED prev

call_get_polygon ==
    /\ Idle
    /\ \E geohash \in InputStrings : geohash_enter("get_polygon", geohash, <<>>)
    /\ UNCHANGED prev

call_get_geojson ==
    /\ Idle
    /\ \E geohash \in InputStrings, properties \in PropertySets :
          geohash_enter("get_geojson", geohash, properties)
    /\ UNCHANGED prev

\* geohash.py:72-77, the character is in the alphabet
get_bounds_character ==
    /\ stack # <<>> /\ Top = "get_bounds"
    /\ gb.nvals = <<>> /\ gb.pos < Len(gb.geohash)
    /\ character_index(gb) # -1
    /\ gb' = next_character(gb)
    /\ UNCHANGED <<stack, args, enc, gj, ret, prev, bisections>>

\* geohash.py:72-75, the character is not in the alphabet
get_bounds_raise ==
    /\ stack # <<>> /\ Top = "get_bounds"
    /\ gb.nvals = <<>> /\ gb.pos < Len(gb.geohash)
    /\ character_index(gb) = -1
    /\ ret' = InvalidGeohash
    /\ stack' = Pop
    /\ gb' = GbIdle
    /\ UNCHANGED <<args, enc, gj, prev, bisections>>

\* geohash.py:78-92
get_bounds_bit ==
    /\ stack # <<>> /\ Top = "get_bounds"
    /\ gb.nvals # <<>>
    /\ gb' = narrow(gb)
    /\ UNCHANGED <<stack, args, enc, gj, ret, prev, bisections>>

\* geohash.py:94
get_bounds_return ==
    /\ stack # <<>> /\ Top = "get_bounds"
    /\ gb.nvals = <<>> /\ gb.pos >= Len(gb.geohash)
    /\ ret' = Returned(bounds_of(gb))
    /\ stack' = Pop
    /\ gb' = GbIdle
    /\ UNCHANGED <<args, enc, gj, prev, bisections>>

\* geohash.py:110-114
decode_return ==
    /\ stack # <<>> /\ Top = "decode"
    /\ ret.status = "returned"
    /\ ret' = Returned(centroid(ret.value))
    /\ stack' = Pop
    /\ UNCHANGED <<args, enc, gb, gj, prev, bisections>>

\* geohash.py:40-47
get_polygon_return ==
    /\ stack # <<>> /\ Top = "get_polygon"
    /\ ret.status = "returned"
    /\ ret' = Returned(polygon_vertices(ret.value))
    /\ stack' = Pop
    /\ UNCHANGED <<args, enc, gb, gj, prev, bisections>>

\* geohash.py:22-24
get_geojson_return ==
    /\ stack # <<>> /\ Top = "get_geojson"
    /\ ret.status = "returned"
    /\ ret' = Returned(append_polygon(gj.feature, ret.value))
    /\ stack' = Pop
    /\ gj' = GjIdle
    /\ UNCHANGED <<args, enc, gb, prev, bisections>>

\* an exception leaves the caller of the function that raised it (lines
\* 110, 40 and 22 catch nothing)
propagate ==
    /\ stack # <<>> /\ Top \in Callers
    /\ ret.status = "raised"
    /\ stack' = Pop
    /\ gj' = GjIdle
    /\ UNCHANGED <<args, enc, gb, ret, prev, bisections>>

\* the caller passes what encode returned to get_bounds
roundtrip_get_bounds ==
    /\ Done /\ prev = NoCall
    /\ args.fn = "encode" /\ ret.status = "returned"
    /\ prev' = [args |-> args, ret |-> ret]
    /\ geohash_enter("get_bounds", ret.value, <<>>)

\* the caller passes what decode returned to encode, with the precision of
\* the geohash it decoded
roundtrip_encode ==
    /\ Done /\ prev = NoCall
    /\ args.fn = "decode" /\ ret.status = "returned"
    /\ prev' = [args |-> args, ret |-> ret]
    /\ encode_enter(ret.value[1], ret.value[2], Len(args.geohash))

hexagon_enter(fn, lat, lon, resolution, h3_address, result) ==
    /\ args' = [NoArgs EXCEPT !.fn = fn, !.latitude = lat, !.longitude = lon,
                              !.precision = resolution, !.h3_address = h3_address]
    /\ ret' = result
    /\ UNCHANGED <<stack, enc, gb, gj, bisections>>

\* hexagon.py:3-5, called as encode(lat, lon) or encode(lat, lon, resolution=r)
call_hexagon_encode ==
    /\ Idle
    /\ \E lat \in HexLatitudes, lon \in HexLongitudes :
          \/ hexagon_enter("hexagon.encode", lat, lon, DefaultResolution, <<>>,
                           hexagon_encode(lat, lon, <<>>))
          \/ \E r \in Resolutions :
                hexagon_enter("hexagon.encode", lat, lon, r, <<>>,
                              hexagon_encode(lat, lon, [resolution |-> r]))
    /\ UNCHANGED prev

\* hexagon.py:11-15, called with the cell encode returned
call_hexagon_from_h3 ==
    /\ Done /\ prev = NoCall
    /\ args.fn = "hexagon.encode" /\ ret.status = "returned"
    /\ prev' = [args |-> args, ret |-> ret]
    /\ hexagon_enter("hexagon_from_h3", 0, 0, 0, ret.value,
                     hexagon_from_h3(ret.value))

\* hexagon.py:17-21, called as hexagon_from_location(lat, lon) or
\* hexagon_from_location(lat, lon, r)
call_hexagon_from_location ==
    /\ Idle
    /\ \E lat \in HexLatitudes, lon \in HexLongitudes,
          r \in Resolutions \cup {DefaultResolution} :
          hexagon_enter("hexagon_from_location", lat, lon, r, <<>>,
                        hexagon_from_location(lat, lon, r))
    /\ UNCHANGED prev

\* the caller drops what it holds and starts over
forget ==
    /\ Done
    /\ stack' = <<>> /\ args' = NoArgs /\ enc' = EncIdle /\ gb' = GbIdle
    /\ gj' = GjIdle /\ ret' = NoRet /\ prev' = NoCall /\ bisections' = 0

Next ==
    \/ call_encode
    \/ encode_loop
    \/ encode_return
    \/ call_get_bounds
    \/ call_decode
    \/ call_get_polygon
    \/ call_get_geojson
    \/ get_bounds_character
    \/ get_bounds_raise
    \/ get_bounds_bit
    \/ get_bounds_return
    \/ decode_return
    \/ get_polygon_return
    \/ get_geojson_return
    \/ propagate
    \/ roundtrip_get_bounds
    \/ roundtrip_encode
    \/ call_hexagon_encode
    \/ call_hexagon_from_h3
    \/ call_hexagon_from_location
    \/ forget

Spec == Init /\ [][Next]_vars

---------------------------------------------------------------------------
(* Properties                                                              *)

GeohashFunctions == {"get_bounds", "decode", "get_polygon", "get_geojson"}

InAlphabet(c) == \E i \in 1..Len(geohash_base32) : geohash_base32[i] = c

\* every character is in the alphabet once lowercased
ValidAnyCase(g) == \A i \in 1..Len(g) : InAlphabet(lower_char(g[i]))

\* get_bounds has returned the box of a geohash that encode returned
BoundsOfEncoded ==
    /\ Done
    /\ args.fn = "get_bounds"
    /\ prev.args.fn = "encode"

\* box `inner` lies within box `outer`
Within(inner, outer) ==
    /\ outer.sw.lat <= inner.sw.lat /\ inner.ne.lat <= outer.ne.lat
    /\ outer.sw.lon <= inner.sw.lon /\ inner.ne.lon <= outer.ne.lon

\* C1: for a latitude in [-90, 90], a longitude in [-180, 180] and a
\* precision in 1..12, the box get_bounds returns for what encode returned
\* contains the point, edges included.
C1_RoundTripContainment ==
    ( /\ BoundsOfEncoded
      /\ South <= prev.args.latitude /\ prev.args.latitude <= North
      /\ West <= prev.args.longitude /\ prev.args.longitude <= East )
    => /\ ret.status = "returned"
       /\ ret.value.sw.lat <= prev.args.latitude
       /\ prev.args.latitude <= ret.value.ne.lat
       /\ ret.value.sw.lon <= prev.args.longitude
       /\ prev.args.longitude <= ret.value.ne.lon

\* the north pole on the antimeridian's east edge, at precision 12
C1_Witness ==
    /\ BoundsOfEncoded
    /\ prev.args.latitude = North /\ prev.args.longitude = East
    /\ prev.args.precision = MaxPrecision
    /\ ret.status = "returned"
    /\ ret.value.ne.lat = North /\ ret.value.ne.lon = East

\* C2: for a precision p in 1..12 and any latitude and longitude, encode
\* returns after exactly 5*p iterations a string of p alphabet characters;
\* index is within 5 bits whenever it is mapped to a character, and index and
\* bit are 0 after each character.
C2_EncodeLength ==
    /\ (stack # <<>> /\ Top = "encode") =>
          /\ enc.bit \in 0..4
          /\ enc.index \in 0..(2^enc.bit - 1)
          /\ (enc.bit = 4 => bisect(enc).index \in 0..31)
          /\ bisections = 5 * Len(enc.geohash) + enc.bit
          /\ bisections <= 5 * enc.precision
          /\ (bisections = 5 * enc.precision => ~encode_continues(enc))
          /\ \A i \in 1..Len(enc.geohash) : InAlphabet(enc.geohash[i])
    /\ ( /\ Done /\ args.fn = "encode"
         /\ args.precision \in MinPrecision..MaxPrecision ) =>
          /\ ret.status = "returned"
          /\ Len(ret.value) = args.precision
          /\ \A i \in 1..Len(ret.value) : InAlphabet(ret.value[i])
          /\ bisections = 5 * args.precision

\* a latitude beyond the pole, at precision 12: 60 iterations
C2_Witness ==
    /\ Done /\ args.fn = "encode"
    /\ args.latitude = North + 1 /\ args.precision = MaxPrecision
    /\ ret.status = "returned" /\ Len(ret.value) = 12 /\ bisections = 60

\* C3: encode raises for every precision outside 1..12 without running the
\* loop or building any string, and for every precision inside 1..12 it
\* returns a string of that very precision.
C3_PrecisionBounds ==
    args.fn = "encode" =>
       IF args.precision < 1 \/ args.precision > 12
       THEN /\ stack = <<>>
            /\ ret = InvalidPrecision
            /\ enc = EncIdle
            /\ bisections = 0
       ELSE /\ stack # <<>> => (ret.status = "none" /\ enc.precision = args.precision)
            /\ stack = <<>> => (ret.status = "returned"
                                /\ Len(ret.value) = args.precision)

\* encode(0, 0, 13) has raised
C3_Witness ==
    /\ Done /\ args.fn = "encode"
    /\ args.latitude = 0 /\ args.longitude = 0
    /\ args.precision = 13
    /\ ret = InvalidPrecision

\* C4: get_bounds, decode, get_polygon and get_geojson raise, and return
\* nothing, when the lowercased string holds a character outside the
\* alphabet, wherever it stands; they return for every other string.
C4_InvalidCharacter ==
    (Done /\ args.fn \in GeohashFunctions) =>
       IF ValidAnyCase(args.geohash)
       THEN ret.status = "returned"
       ELSE ret = InvalidGeohash

\* get_geojson has raised for eleven alphabet characters followed by "o"
C4_Witness ==
    /\ Done /\ args.fn = "get_geojson"
    /\ Len(args.geohash) = 12 /\ args.geohash[12] = "o"
    /\ ValidAnyCase(SubSeq(args.geohash, 1, 11))
    /\ ret = InvalidGeohash

\* C5: the box of a geohash g of fewer than 12 characters (the empty string
\* too) strictly contains the box of g + c for every alphabet character c.
C5_Refinement ==
    ( /\ Done /\ args.fn = "get_bounds" /\ ret.status = "returned"
      /\ Len(args.geohash) < 12 ) =>
       \A i \in 1..Len(geohash_base32) :
          LET child == get_bounds(Append(args.geohash, geohash_base32[i]))
          IN  /\ child.status = "returned"
              /\ Within(child.value, ret.value)
              /\ child.value # ret.value

\* get_bounds has returned the box of a geohash of 11 characters
C5_Witness ==
    /\ Done /\ args.fn = "get_bounds" /\ ret.status = "returned"
    /\ Len(args.geohash) = 11
    /\ ret.value.ne.lat - ret.value.sw.lat = 16

\* C6: get_polygon returns for every valid geohash, and what it returns are
\* the five [lon, lat] corners SW, NW, NE, SE, SW of the geohash's box.
C6_Polygon ==
    (Done /\ args.fn = "get_polygon" /\ ValidAnyCase(args.geohash)) =>
       /\ ret.status = "returned"
       /\ get_bounds(args.geohash).status = "returned"
       /\ LET bounds == get_bounds(args.geohash).value
              polygon == ret.value
          IN  /\ Len(polygon) = 5
              /\ polygon[1] = <<bounds.sw.lon, bounds.sw.lat>>
              /\ polygon[2] = <<bounds.sw.lon, bounds.ne.lat>>
              /\ polygon[3] = <<bounds.ne.lon, bounds.ne.lat>>
              /\ polygon[4] = <<bounds.ne.lon, bounds.sw.lat>>
              /\ polygon[5] = <<bounds.sw.lon, bounds.sw.lat>>
              /\ polygon[1] = polygon[5]

\* get_polygon has returned the ring of "u4pruydqqvj8"
C6_Witness ==
    /\ Done /\ args.fn = "get_polygon" /\ ret.status = "returned"
    /\ args.geohash = <<"u","4","p","r","u","y","d","q","q","v","j","8">>
    /\ ret.value[1] # ret.value[3]

\* after `bits` bits the longitude has been halved ceil(bits/2) times and
\* the latitude floor(bits/2) times: the flag and the box say so
Alternates(bits, even_bit, lat_min, lat_max, lon_min, lon_max) ==
    LET lon_halvings == (bits + 1) \div 2
        lat_halvings == bits \div 2
    IN  /\ even_bit = (bits % 2 = 0)
        /\ lat_min < lat_max
        /\ lon_min < lon_max
        /\ IF lon_halvings = 0
           THEN lon_min = West /\ lon_max = East
           ELSE lon_max - lon_min = 2^(31 - lon_halvings)
        /\ IF lat_halvings = 0
           THEN lat_min = South /\ lat_max = North
           ELSE lat_max - lat_min = 2^(31 - lat_halvings)

\* C7: in get_bounds and in encode the first bit halves the longitude and
\* the axis changes after every bit, across characters too, so after n
\* characters the box is 360 / 2^ceil(5n/2) wide and 180 / 2^floor(5n/2)
\* high, and south-west is below north-east in every state.
C7_Alternation ==
    /\ (stack # <<>> /\ Top = "encode") =>
          Alternates(5 * Len(enc.geohash) + enc.bit, enc.even_bit,
                     enc.lat_min, enc.lat_max, enc.lon_min, enc.lon_max)
    /\ (stack # <<>> /\ Top = "get_bounds") =>
          /\ Alternates(5 * gb.pos - Len(gb.nvals), gb.even_bit,
                        gb.latitude_min, gb.latitude_max,
                        gb.longitude_min, gb.longitude_max)
          /\ (gb.nvals = <<>> => gb.even_bit = (gb.pos % 2 = 0))
    /\ (Done /\ args.fn = "get_bounds" /\ ret.status = "returned") =>
          Alternates(5 * Len(args.geohash), Len(args.geohash) % 2 = 0,
                     ret.value.sw.lat, ret.value.ne.lat,
                     ret.value.sw.lon, ret.value.ne.lon)

\* the box of a geohash of one character is 45 by 45 degrees
C7_Witness ==
    /\ Done /\ args.fn = "get_bounds" /\ ret.status = "returned"
    /\ Len(args.geohash) = 1
    /\ ret.value.ne.lon - ret.value.sw.lon = 2^28
    /\ ret.value.ne.lat - ret.value.sw.lat = 2^29

\* C8: a coordinate equal to the midpoint goes to the upper half in encode
\* as bit 1 does in get_bounds, so for a latitude in [-90, 90) and a
\* longitude in [-180, 180) the running box of encode and the box of what it
\* returned hold the point half-open: south-west included, north-east not.
C8_TieBreak ==
    /\ ( /\ stack # <<>> /\ Top = "encode"
         /\ South <= enc.latitude /\ enc.latitude < North
         /\ West <= enc.longitude /\ enc.longitude < East ) =>
          /\ enc.lat_min <= enc.latitude /\ enc.latitude < enc.lat_max
          /\ enc.lon_min <= enc.longitude /\ enc.longitude < enc.lon_max
    /\ ( /\ BoundsOfEncoded
         /\ South <= prev.args.latitude /\ prev.args.latitude < North
         /\ West <= prev.args.longitude /\ prev.args.longitude < East ) =>
          /\ ret.status = "returned"
          /\ ret.value.sw.lat <= prev.args.latitude
          /\ prev.args.latitude < ret.value.ne.lat
          /\ ret.value.sw.lon <= prev.args.longitude
          /\ prev.args.longitude < ret.value.ne.lon

\* the point (0, 0), on the first midpoint of both axes, is the south-west
\* corner of its cell at precision 12
C8_Witness ==
    /\ BoundsOfEncoded
    /\ prev.args.latitude = 0 /\ prev.args.longitude = 0
    /\ prev.args.precision = MaxPrecision
    /\ ret.status = "returned"
    /\ ret.value.sw.lat = 0 /\ ret.value.sw.lon = 0

\* C9: for a geohash g of 1..12 alphabet characters in any letter case,
\* decode(g) is the midpoint of the box of lower(g), get_bounds(g) is the box
\* of lower(g), and encoding the centroid at precision len(g) returns
\* lower(g).
C9_DecodeEncode ==
    /\ ( /\ Done /\ args.fn = "decode" /\ ValidAnyCase(args.geohash)
         /\ Len(args.geohash) \in 1..12 ) =>
          /\ ret.status = "returned"
          /\ LET bounds == get_bounds(lower(args.geohash)).value
             IN  /\ 2 * ret.value[1] = bounds.sw.lat + bounds.ne.lat
                 /\ 2 * ret.value[2] = bounds.sw.lon + bounds.ne.lon
    /\ ( /\ Done /\ args.fn = "get_bounds" /\ ValidAnyCase(args.geohash)
         /\ Len(args.geohash) \in 1..12 ) =>
          ret = get_bounds(lower(args.geohash))
    /\ ( /\ Done /\ args.fn = "encode" /\ prev.args.fn = "decode"
         /\ Len(prev.args.geohash) \in 1..12 ) =>
          ret = Returned(lower(prev.args.geohash))

\* the centroid of "U4PRUYDQ" encodes to "u4pruydq"
C9_Witness ==
    /\ Done /\ args.fn = "encode" /\ prev.args.fn = "decode"
    /\ prev.args.geohash = <<"U","4","P","R","U","Y","D","Q">>
    /\ ret = Returned(<<"u","4","p","r","u","y","d","q">>)

\* C10: hexagon_from_location(lat, lon, resolution) returns what
\* hexagon_from_h3 returns for the cell encode(lat, lon, resolution).
C10_HexagonFromLocation ==
    (Done /\ args.fn = "hexagon_from_location") =>
       /\ ret.status = "returned"
       /\ ret = hexagon_from_h3(
                   hexagon_encode(args.latitude, args.longitude,
                                  [resolution |-> args.precision]).value)

=============================================================================
